---- MODULE Spec2Model ----
(***************************************************************************)
(* Model of the task store of the patent-analysis front end                *)
(* (src/frontend/stores/task.ts, the store defined at lines 1-450).        *)
(*                                                                         *)
(* The store is a single-threaded, event-driven program.  Every action of  *)
(* this module is one run-to-completion segment of the code: from a user   *)
(* call, a network response, a stream event or a timer callback up to the  *)
(* next await that really suspends (a network request).  An await of       *)
(* ensureAuth() with a cached credential resumes in the same microtask     *)
(* checkpoint, before any other network response, stream event, timer or   *)
(* user action can run, so the code after it belongs to the same segment.  *)
(***************************************************************************)
EXTENDS Integers, Sequences, FiniteSets, TLC

-----------------------------------------------------------------------------
(* Bounds of the model *)

MaxObj == 2
\* Task objects ever allocated (createTask, JSON.parse, synthesized tasks)

MaxBid == 2
\* job ids the backend ever assigns

MaxTok == 2
\* guest credentials the backend ever issues

MaxTimers == 1
\* reconnect timers pending at once for one Task object

MaxStreams == 3
\* EventSource objects that are open or still registered at once

MaxDeletions == 1
\* deleteTask and clearAllTasks calls the user makes

ObjIds == 1..MaxObj
Bids == 1..MaxBid
Sids == 1..MaxStreams

-----------------------------------------------------------------------------
(* Values *)

Statuses == {"pending", "processing", "completed", "error"}
\* Raw statuses: "queued" stands for any string outside the six known terms,
\* "absent" for a missing status field (undefined).

NoUrl == [kind |-> "none", bid |-> 0]
ApiUrl(b) == [kind |-> "api", bid |-> b]
\* `/api/tasks/${b}/download`
EvtUrl == [kind |-> "evt", bid |-> 0]
\* a downloadUrl string carried by a stream event

NoTask == [id |-> 0, backendId |-> 0, status |-> "absent", progress |-> 0,
           currentStep |-> "absent", downloadUrl |-> NoUrl, error |-> "absent",
           createdAt |-> 0]
\* an unallocated slot of the heap of Task objects

NoStream == [url |-> 0, task |-> 0, open |-> FALSE]
\* an unallocated EventSource slot

NoCall == [pc |-> "idle", bid |-> 0, idx |-> 0, raw |-> "none"]

\* A MessageEvent: the EventSource it is dispatched on and its data, which
\* is a progress record when JSON.parse accepts it
NoRecord ==
  [status |-> "absent", hasProgress |-> FALSE, progress |-> 0, step |-> "absent",
   downloadUrl |-> NoUrl, error |-> "absent"]
MessageEvent(s, parses, rec) == [sid |-> s, parses |-> parses, data |-> rec]
NoDelivery == MessageEvent(0, FALSE, NoRecord)
\* no call of an async action in flight

-----------------------------------------------------------------------------
(* Pure functions *)

normalizeStatus_dropFailed(status) ==
  IF status = "cancelled" THEN "error"
  ELSE IF status \in Statuses \cup {"failed"} THEN status
  ELSE "processing"

normalizeStatus_unknownIsPending(status) ==
  IF status \in {"failed", "cancelled"} THEN "error"
  ELSE IF status \in {"pending", "processing", "completed", "error"} THEN status
  ELSE "pending"

normalizeStatus(status) ==
  IF status = "failed" \/ status = "cancelled" THEN "error"
  ELSE IF status \in Statuses THEN status
  ELSE "processing"

Min(S) == CHOOSE x \in S : \A y \in S : x <= y

SeqToSet(s) == {s[i] : i \in 1..Len(s)}

IndexOf(s, x) ==
  IF x \in SeqToSet(s) THEN Min({i \in 1..Len(s) : s[i] = x}) ELSE 0
\* Array.prototype.findIndex, 1-based; 0 stands for -1

Splice(s, i) ==
  IF i \in 1..Len(s) THEN SubSeq(s, 1, i - 1) \o SubSeq(s, i + 1, Len(s)) ELSE s
\* Array.prototype.splice(i, 1), 1-based

\* withTokenQuery, lines 17-20.  A string is a sequence of pieces; "?" is a
\* piece of its own, so url.includes('?') asks for that piece.
Unreserved == {"T", "9"}
\* characters encodeURIComponent leaves alone; "+" stands for the others

RECURSIVE encodeURIComponent(_)
encodeURIComponent(s) ==
  IF s = <<>> THEN <<>>
  ELSE (IF Head(s) \in Unreserved THEN <<Head(s)>> ELSE <<"%2B">>)
          \o encodeURIComponent(Tail(s))

withTokenQuery_alwaysQuestionMark(url, token) ==
  url \o <<"?">> \o <<"token=">> \o encodeURIComponent(token)

withTokenQuery(url, token) ==
  LET separator == IF \E i \in 1..Len(url) : url[i] = "?" THEN "&" ELSE "?"
  IN url \o <<separator>> \o <<"token=">> \o encodeURIComponent(token)

\* sortedTasks, lines 43-55
statusOrder(status) ==
  CASE status = "processing" -> 0
    [] status = "pending" -> 1
    [] status = "completed" -> 2
    [] status \in {"error", "failed", "cancelled"} -> 3
    [] OTHER -> 9

compare_oldestFirst(a, b) ==
  IF statusOrder(a.status) - statusOrder(b.status) # 0
  THEN statusOrder(a.status) - statusOrder(b.status)
  ELSE a.createdAt - b.createdAt

\* the comparator of lines 52-54
compare(a, b) ==
  IF statusOrder(a.status) - statusOrder(b.status) # 0
  THEN statusOrder(a.status) - statusOrder(b.status)
  ELSE b.createdAt - a.createdAt

\* Array.prototype.sort is stable: an element goes before the first later
\* element it does not have to follow.
insert(x, s) ==
  LET before == {i \in 1..Len(s) : compare(x, s[i]) <= 0}
      k == IF before = {} THEN Len(s) + 1 ELSE Min(before)
  IN SubSeq(s, 1, k - 1) \o <<x>> \o SubSeq(s, k, Len(s))

RECURSIVE sort(_)
sort(s) == IF s = <<>> THEN <<>> ELSE insert(Head(s), sort(Tail(s)))

\* [...state.tasks].sort(...): list is the registry, as Task values
sortedTasks(list) == sort(list)

-----------------------------------------------------------------------------
(* State *)

VARIABLES
  tasks,            \* this.tasks: the registry, a sequence of Task objects (by ObjId)
  obj,              \* the Task objects: ObjId -> fields (NoTask when unallocated)
  nextObj,          \* the next Task object to allocate
  authToken,        \* this.authToken (0 stands for '')
  userId,           \* this.userId (0 stands for '')
  lsToken,          \* localStorage[AUTH_TOKEN_KEY] (0 when absent)
  lsUserId,         \* localStorage[AUTH_USER_ID_KEY] (0 when absent)
  lsTasks,          \* localStorage[STORAGE_KEY]: the persisted snapshot
  progressStreams,  \* this.progressStreams: backendId -> EventSource (0 when no entry)
  es,               \* the EventSource objects: Sid -> [url, task, open]
  timers,           \* pending reconnect timers (setTimeout closures) per Task object
  trk,              \* startProgressTracking calls awaiting a guest-session response
  initPc,           \* position of init()
  sub,              \* submitTask calls in flight, per Task object
  del,              \* deleteTask calls in flight, per Task object
  clr,              \* position of clearAllTasks(), or how its last call ended
  srvJobs,          \* backend: the caller's jobs
  nextBid,          \* backend: the next job id to assign
  nextTok,          \* backend: the next guest credential to issue
  deletions,        \* deleteTask and clearAllTasks calls made so far
  delivered,        \* the MessageEvent the latest step dispatched to an
                    \* onmessage handler, NoDelivery when it dispatched none
                    \* (observed in the family "events" only)
  pure,             \* the call of a pure function a run of SpecPure evaluates:
                    \* its name, argument and result (NoEval in the store's runs)
  dl,               \* the downloadResult call of a run of SpecDownload: where
                    \* it stands, its Task, the credential it sends and what
                    \* the browser was made to do (NoDownload in other runs)
  scope             \* the family of runs explored: "one" Task object with every
                    \* input and any storage, "many" Task objects with the
                    \* core inputs and a stored credential, "legacy": one
                    \* Task object, the core inputs and a snapshot that holds
                    \* a raw status, or "events": one Task object, a stored
                    \* credential, every stream event and the core inputs
                    \* otherwise, or "download": one Task object, the core
                    \* inputs, any storage and a snapshot that may hold a
                    \* completed Task (the runs of SpecDownload)

vars == <<tasks, obj, nextObj, authToken, userId, lsToken, lsUserId, lsTasks,
          progressStreams, es, timers, trk, initPc, sub, del, clr,
          srvJobs, nextBid, nextTok, deletions, delivered, pure, dl, scope>>

storeVars == <<tasks, obj, nextObj, authToken, userId, lsToken, lsUserId, lsTasks,
               progressStreams, es, timers, trk, initPc, sub, del, clr,
               srvJobs, nextBid, nextTok, deletions, delivered, dl, scope>>

NoEval == [fn |-> "none", arg |-> <<>>, done |-> TRUE, res |-> <<>>]

NoDownload == [pc |-> "idle", o |-> 0, token |-> 0, out |-> "none"]

\* The store and the browser state it reaches, as one value the store's
\* methods are applied to in sequence.
Cur ==
  [tasks |-> tasks, obj |-> obj, nextObj |-> nextObj,
   authToken |-> authToken, userId |-> userId,
   lsToken |-> lsToken, lsUserId |-> lsUserId, lsTasks |-> lsTasks,
   progressStreams |-> progressStreams, es |-> es, timers |-> timers,
   trk |-> trk, delivered |-> NoDelivery, dl |-> dl,
   cap |-> IF scope = "many" THEN MaxObj ELSE 1, ok |-> TRUE]
\* cap is the number of Task objects the run may allocate; ok turns FALSE
\* when a step would exceed a bound of the model

Commit(S) ==
  /\ S.ok
  /\ tasks' = S.tasks
  /\ obj' = S.obj
  /\ nextObj' = S.nextObj
  /\ authToken' = S.authToken
  /\ userId' = S.userId
  /\ lsToken' = S.lsToken
  /\ lsUserId' = S.lsUserId
  /\ lsTasks' = S.lsTasks
  /\ progressStreams' = S.progressStreams
  /\ es' = S.es
  /\ timers' = S.timers
  /\ trk' = S.trk
  /\ delivered' = IF scope = "events" THEN S.delivered ELSE NoDelivery
  /\ pure' = pure
  /\ dl' = S.dl

-----------------------------------------------------------------------------
(* Store methods *)

Serialize(S) == [i \in 1..Len(S.tasks) |-> S.obj[S.tasks[i]]]
\* JSON.stringify(this.tasks): the field values of the registry's Tasks, in order

saveToStorage(S) ==
  [S EXCEPT !.lsTasks = [present |-> TRUE, list |-> Serialize(S)]]

loadAuthFromStorage(S) ==
  [S EXCEPT !.authToken = S.lsToken, !.userId = S.lsUserId]

saveAuthToStorage_tokenOnly(S, token, uid) ==
  [S EXCEPT !.authToken = token, !.lsToken = token]

saveAuthToStorage_memoryOnly(S, token, uid) ==
  [S EXCEPT !.authToken = token, !.userId = uid]

saveAuthToStorage(S, token, uid) ==
  [S EXCEPT !.authToken = token, !.userId = uid, !.lsToken = token, !.lsUserId = uid]

\* ensureAuth up to its guest-session request: the cached paths
ensureAuthCached(S) ==
  IF S.authToken # 0 THEN S ELSE loadAuthFromStorage(S)

\* Answers to POST /api/auth/guest: the credential tok, or a failure (fetch
\* throwing, a non-success status, a body that lacks token or userId)
GuestOk(tok) == [kind |-> "ok", token |-> tok, userId |-> tok]

GuestFailures(tok) ==
  {[kind |-> "throw", token |-> 0, userId |-> 0],
   [kind |-> "http", token |-> 0, userId |-> 0],
   [kind |-> "ok", token |-> tok, userId |-> 0],
   [kind |-> "ok", token |-> 0, userId |-> tok]}

guestAnswered_savesPartial(S, r) ==
  IF r.kind # "ok" THEN S ELSE saveAuthToStorage(S, r.token, r.userId)

\* ensureAuth, lines 163-171: the guest-session request is answered
guestAnswered(S, r) ==
  IF r.kind # "ok" \/ r.token = 0 \/ r.userId = 0 THEN S
  ELSE saveAuthToStorage(S, r.token, r.userId)

\* Closed EventSource objects that nothing refers to any more are dropped.
Collect(S) ==
  [S EXCEPT !.es = [s \in Sids |->
      IF S.es[s].open \/ (\E b \in Bids : S.progressStreams[b] = s)
      THEN S.es[s] ELSE NoStream]]

CloseStream(S, s) ==
  IF s = 0 THEN S ELSE [S EXCEPT !.es[s].open = FALSE]
\* EventSource.close()

DeleteEntry(S, b) ==
  IF b = 0 THEN S ELSE [S EXCEPT !.progressStreams[b] = 0]
\* delete this.progressStreams[b]

\* startProgressTracking, lines 277-282: close the registered stream of the
\* Task's backendId, open a new EventSource and register it.
OpenStream(S, o) ==
  LET b == S.obj[o].backendId
      free == {s \in Sids : S.es[s] = NoStream}
      S1 == CloseStream(S, S.progressStreams[b])
  IN IF free = {} THEN [S EXCEPT !.ok = FALSE]
     ELSE Collect([S1 EXCEPT !.es[Min(free)] = [url |-> b, task |-> o, open |-> TRUE],
                             !.progressStreams[b] = Min(free)])

startProgressTracking_noGuard(S, o) ==
  LET A == ensureAuthCached(S)
  IN IF S.obj[o].backendId = 0 THEN S
     ELSE IF A.authToken # 0 THEN OpenStream(A, o)
     ELSE [A EXCEPT !.trk[o] = @ + 1]

\* startProgressTracking up to the point where it suspends or returns
startProgressTracking(S, o) ==
  LET A == ensureAuthCached(S)
  IN IF S.obj[o].backendId = 0 \/ S.obj[o].status \in {"completed", "error"} THEN S
     ELSE IF A.authToken # 0 THEN OpenStream(A, o)
     ELSE [A EXCEPT !.trk[o] = @ + 1]

\* startProgressTracking, lines 269-275: no credential
trackAuthFailed(S, o) ==
  saveToStorage([S EXCEPT !.obj[o].status = "error",
                          !.obj[o].error = "authExpired"])

stopProgressTracking(S, b) ==
  IF b = 0 \/ S.progressStreams[b] = 0 THEN S
  ELSE Collect(DeleteEntry(CloseStream(S, S.progressStreams[b]), b))

RECURSIVE restoreFrom(_, _)
restoreFrom(S, i) ==
  IF i > Len(S.tasks) THEN S
  ELSE LET o == S.tasks[i]
           S1 == [S EXCEPT !.obj[o].status = normalizeStatus(S.obj[o].status)]
       IN restoreFrom(IF S1.obj[o].status = "processing" /\ S1.obj[o].backendId # 0
                      THEN startProgressTracking(S1, o) ELSE S1,
                      i + 1)

restoreProcessingTasks_skips(S) == S

\* restoreProcessingTasks, lines 443-448
restoreProcessingTasks(S) == restoreFrom(S, 1)

-----------------------------------------------------------------------------
(* Inputs: what the backend may answer *)

\* Progress records a stream delivers (TaskProgress).  progress is read with
\* ??, so a missing progress is told apart from 0; step, downloadUrl and
\* error are "absent"/NoUrl when the record does not carry them.
Event(st, hp, p, step, url, err) ==
  [status |-> st, hasProgress |-> hp, progress |-> p, step |-> step,
   downloadUrl |-> url, error |-> err]

Events ==
  {Event(st, TRUE, 40, "OCR", NoUrl, "absent") :
      st \in {"processing", "pending", "queued", "absent"}}
  \cup {Event("processing", FALSE, 0, "absent", NoUrl, "absent")}
  \cup {Event("completed", TRUE, 100, "OCR", EvtUrl, "absent"),
        Event("completed", TRUE, 100, "OCR", NoUrl, "absent"),
        Event("completed", FALSE, 0, "absent", EvtUrl, "absent")}
  \cup {Event(st, TRUE, 40, "OCR", NoUrl, err) :
      st \in {"error", "failed", "cancelled"}, err \in {"evtErr", "absent"}}

\* Records of the GET /api/tasks list.  progress, step and error are read with
\* ||, so 0 and "absent" stand for every falsy value.
SrvRecord(b, st, p, step, err) ==
  [id |-> b, status |-> st, progress |-> p, step |-> step, error |-> err,
   created_at |-> b]

SrvRecords(b) ==
  {SrvRecord(b, "processing", 40, "OCR", "absent"),
   SrvRecord(b, "pending", 0, "absent", "absent"),
   SrvRecord(b, "queued", 0, "absent", "absent"),
   SrvRecord(b, "completed", 100, "OCR", "absent"),
   SrvRecord(b, "completed", 0, "absent", "absent"),
   SrvRecord(b, "failed", 40, "OCR", "srvErr"),
   SrvRecord(b, "error", 0, "absent", "absent"),
   SrvRecord(b, "cancelled", 0, "absent", "srvErr")}

\* Statuses a creation response may carry (data.status)
CreateStatuses == {"processing", "pending", "queued", "absent", "completed", "failed"}

\* The core inputs: a job that runs, completes or fails
CoreEvents ==
  {Event("processing", TRUE, 40, "OCR", NoUrl, "absent"),
   Event("completed", TRUE, 100, "OCR", EvtUrl, "absent"),
   Event("failed", TRUE, 40, "OCR", NoUrl, "evtErr")}

CoreSrvRecords(b) ==
  {SrvRecord(b, "processing", 40, "OCR", "absent"),
   SrvRecord(b, "completed", 100, "OCR", "absent"),
   SrvRecord(b, "failed", 40, "OCR", "srvErr")}

CoreCreateStatuses == {"processing", "completed"}

\* How a request fails: a non-success response whose body carries a
\* structured detail, a non-success response without one, or fetch throwing.
FailKinds == {"detail", "http", "threw"}

CoreFailKinds == {"http"}

-----------------------------------------------------------------------------
(* Handlers *)

\* createTask, lines 186-199
NewTask(o) ==
  [id |-> o, backendId |-> 0, status |-> "pending", progress |-> 0,
   currentStep |-> "waiting", downloadUrl |-> NoUrl, error |-> "absent",
   createdAt |-> o]

submitAuthFailed_silent(S, o) == S

\* submitTask, lines 208-214
submitAuthFailed(S, o) ==
  saveToStorage([S EXCEPT !.obj[o].status = "error",
                          !.obj[o].error = "authFailed"])

submitSucceeded_noTracking(S, o, b, raw) ==
  LET st == normalizeStatus(IF raw = "absent" THEN "processing" ELSE raw)
  IN saveToStorage([S EXCEPT
        !.obj[o].backendId = b,
        !.obj[o].status = st,
        !.obj[o].currentStep = IF st = "completed" THEN "reused" ELSE "running",
        !.obj[o].progress = IF st = "completed" THEN 100 ELSE @,
        !.obj[o].downloadUrl = IF st = "completed" THEN ApiUrl(b) ELSE @])

submitSucceeded_noReuse(S, o, b, raw) ==
  LET st == normalizeStatus(IF raw = "absent" THEN "processing" ELSE raw)
  IN startProgressTracking(
        saveToStorage([S EXCEPT !.obj[o].backendId = b,
                                !.obj[o].status = st,
                                !.obj[o].currentStep = "running"]), o)

\* submitTask, lines 230-252: the creation response arrived
submitSucceeded(S, o, b, raw) ==
  LET st == normalizeStatus(IF raw = "absent" THEN "processing" ELSE raw)
      S1 == saveToStorage([S EXCEPT
                !.obj[o].backendId = b,
                !.obj[o].status = st,
                !.obj[o].currentStep = IF st = "completed" THEN "reused" ELSE "running"])
  IN IF st = "completed"
     THEN saveToStorage([S1 EXCEPT !.obj[o].progress = 100,
                                   !.obj[o].downloadUrl = ApiUrl(S1.obj[o].backendId)])
     ELSE startProgressTracking(S1, o)

\* parseApiError, lines 174-183, of a non-success response
parseApiError(kind) ==
  IF kind = "detail" THEN "bodyDetail" ELSE "httpStatusText"

\* The message of the Error the catch block receives: the one thrown at
\* line 228 with parseApiError's text, or the one fetch threw.
caughtMessage(kind) ==
  IF kind = "threw" THEN "fetchErrorText" ELSE parseApiError(kind)

submitFailed_clearsBackendId(S, o, kind) ==
  saveToStorage([S EXCEPT !.obj[o].status = "error",
                          !.obj[o].error = caughtMessage(kind),
                          !.obj[o].backendId = 0])

\* submitTask, lines 253-260
submitFailed(S, o, kind) ==
  saveToStorage([S EXCEPT !.obj[o].status = "error",
                          !.obj[o].error = caughtMessage(kind)])

retryReset_keepsError(S, o) ==
  saveToStorage([S EXCEPT !.obj[o].status = "pending",
                          !.obj[o].progress = 0,
                          !.obj[o].currentStep = "waiting"])

\* retryTask, lines 428-433
retryReset(S, o) ==
  saveToStorage([S EXCEPT !.obj[o].status = "pending",
                          !.obj[o].progress = 0,
                          !.obj[o].currentStep = "waiting",
                          !.obj[o].error = "absent"])

updateFields_ignoresStatus(S, o, ev) ==
  [S EXCEPT
     !.obj[o].progress = IF ev.hasProgress THEN ev.progress ELSE @,
     !.obj[o].currentStep = IF ev.step # "absent" THEN ev.step ELSE @]

\* onmessage, lines 286-292: the fields every progress record updates
updateFields(S, o, ev) ==
  [S EXCEPT
     !.obj[o].progress = IF ev.hasProgress THEN ev.progress ELSE @,
     !.obj[o].currentStep = IF ev.step # "absent" THEN ev.step ELSE @,
     !.obj[o].status = normalizeStatus(ev.status)]

\* onmessage, lines 294-298
onCompleted(S, s, o, ev) ==
  DeleteEntry(CloseStream([S EXCEPT !.obj[o].downloadUrl = ev.downloadUrl], s),
              S.obj[o].backendId)

\* onmessage, lines 298-302
onFailed(S, s, o, ev) ==
  DeleteEntry(CloseStream(
      [S EXCEPT !.obj[o].error = IF ev.error # "absent" THEN ev.error ELSE "fallback"], s),
      S.obj[o].backendId)

onmessage_closesOnParseError(S, s, event) ==
  LET o == S.es[s].task
      ev == event.data
      normalized == normalizeStatus(ev.status)
      S1 == updateFields(S, o, ev)
      S2 == IF normalized = "completed" THEN onCompleted(S1, s, o, ev)
            ELSE IF normalized = "error" THEN onFailed(S1, s, o, ev)
            ELSE S1
  IN IF ~event.parses
     THEN Collect(DeleteEntry(CloseStream([S EXCEPT !.delivered = event], s),
                              S.obj[o].backendId))
     ELSE Collect(saveToStorage([S2 EXCEPT !.delivered = event]))

\* eventSource.onmessage, lines 283-308
onmessage(S, s, event) ==
  LET o == S.es[s].task
      ev == event.data
      normalized == normalizeStatus(ev.status)
      S1 == updateFields(S, o, ev)
      S2 == IF normalized = "completed" THEN onCompleted(S1, s, o, ev)
            ELSE IF normalized = "error" THEN onFailed(S1, s, o, ev)
            ELSE S1
  IN IF ~event.parses THEN [S EXCEPT !.delivered = event]
     ELSE Collect(saveToStorage([S2 EXCEPT !.delivered = event]))

\* eventSource.onerror, lines 310-316
onerror(S, s) ==
  LET o == S.es[s].task
  IN Collect([DeleteEntry(CloseStream(S, s), S.obj[o].backendId)
                EXCEPT !.timers[o] = @ + 1])

timerFired_giveUp(S, o) == [S EXCEPT !.timers[o] = @ - 1]

\* the setTimeout callback, line 314
timerFired(S, o) ==
  LET S1 == [S EXCEPT !.timers[o] = @ - 1]
  IN IF S1.obj[o].status = "processing" THEN startProgressTracking(S1, o) ELSE S1

mergeOne_matchesById(S, r) ==
  LET matches == {i \in 1..Len(S.tasks) : S.obj[S.tasks[i]].id = r.id}
  IN IF matches # {}
     THEN LET o == S.tasks[Min(matches)]
              st == normalizeStatus(r.status)
          IN [S EXCEPT
                !.obj[o].status = st,
                !.obj[o].progress = IF r.progress # 0 THEN r.progress ELSE @,
                !.obj[o].currentStep = IF r.step # "absent" THEN r.step ELSE @,
                !.obj[o].error = IF r.error # "absent" THEN r.error ELSE @,
                !.obj[o].downloadUrl =
                    IF st = "completed" /\ @ = NoUrl THEN ApiUrl(r.id) ELSE @]
     ELSE IF S.nextObj > S.cap THEN [S EXCEPT !.ok = FALSE]
     ELSE LET o == S.nextObj
          IN [S EXCEPT
                !.nextObj = @ + 1,
                !.obj[o] = [id |-> o, backendId |-> r.id,
                            status |-> normalizeStatus(r.status),
                            progress |-> r.progress,
                            currentStep |-> IF r.step # "absent" THEN r.step ELSE "waiting",
                            downloadUrl |-> IF r.status = "completed"
                                            THEN ApiUrl(r.id) ELSE NoUrl,
                            error |-> r.error,
                            createdAt |-> r.created_at],
                !.tasks = <<o>> \o @]

mergeOne_refreshesCreatedAt(S, r) ==
  LET matches == {i \in 1..Len(S.tasks) : S.obj[S.tasks[i]].backendId = r.id}
  IN IF matches # {}
     THEN LET o == S.tasks[Min(matches)]
              st == normalizeStatus(r.status)
          IN [S EXCEPT
                !.obj[o].status = st,
                !.obj[o].progress = IF r.progress # 0 THEN r.progress ELSE @,
                !.obj[o].currentStep = IF r.step # "absent" THEN r.step ELSE @,
                !.obj[o].error = IF r.error # "absent" THEN r.error ELSE @,
                !.obj[o].createdAt = r.created_at,
                !.obj[o].downloadUrl =
                    IF st = "completed" /\ @ = NoUrl THEN ApiUrl(r.id) ELSE @]
     ELSE IF S.nextObj > S.cap THEN [S EXCEPT !.ok = FALSE]
     ELSE LET o == S.nextObj
          IN [S EXCEPT
                !.nextObj = @ + 1,
                !.obj[o] = [id |-> o, backendId |-> r.id,
                            status |-> normalizeStatus(r.status),
                            progress |-> r.progress,
                            currentStep |-> IF r.step # "absent" THEN r.step ELSE "waiting",
                            downloadUrl |-> IF r.status = "completed"
                                            THEN ApiUrl(r.id) ELSE NoUrl,
                            error |-> r.error,
                            createdAt |-> r.created_at],
                !.tasks = <<o>> \o @]

\* init, lines 92-125: one record of the server's list
mergeOne(S, r) ==
  LET matches == {i \in 1..Len(S.tasks) : S.obj[S.tasks[i]].backendId = r.id}
  IN IF matches # {}
     THEN LET o == S.tasks[Min(matches)]
              st == normalizeStatus(r.status)
          IN [S EXCEPT
                !.obj[o].status = st,
                !.obj[o].progress = IF r.progress # 0 THEN r.progress ELSE @,
                !.obj[o].currentStep = IF r.step # "absent" THEN r.step ELSE @,
                !.obj[o].error = IF r.error # "absent" THEN r.error ELSE @,
                !.obj[o].downloadUrl =
                    IF st = "completed" /\ @ = NoUrl THEN ApiUrl(r.id) ELSE @]
     ELSE IF S.nextObj > S.cap THEN [S EXCEPT !.ok = FALSE]
     ELSE LET o == S.nextObj
          IN [S EXCEPT
                !.nextObj = @ + 1,
                !.obj[o] = [id |-> o, backendId |-> r.id,
                            status |-> normalizeStatus(r.status),
                            progress |-> r.progress,
                            currentStep |-> IF r.step # "absent" THEN r.step ELSE "waiting",
                            downloadUrl |-> IF r.status = "completed"
                                            THEN ApiUrl(r.id) ELSE NoUrl,
                            error |-> r.error,
                            createdAt |-> r.created_at],
                !.tasks = <<o>> \o @]

RECURSIVE mergeFrom(_, _, _)
mergeFrom(S, list, i) ==
  IF i > Len(list) \/ ~S.ok THEN S ELSE mergeFrom(mergeOne(S, list[i]), list, i + 1)

Reported(S, list, o) == \E k \in 1..Len(list) : list[k].id = S.obj[o].backendId
\* the response carries a record whose id is the backendId of Task o

mergeServerTasks_keepsReportedOnly(S, list) ==
  LET M == mergeFrom(S, list, 1)
  IN saveToStorage([M EXCEPT !.tasks = SelectSeq(@, LAMBDA o : Reported(M, list, o))])

\* init, lines 90-129
mergeServerTasks(S, list) == saveToStorage(mergeFrom(S, list, 1))

-----------------------------------------------------------------------------
(* Initial states: the store as constructed (lines 23-29), over a browser     *)
(* storage left by an earlier session                                        *)

Persisted(st, b, p, step, url, err) ==
  [id |-> 1, backendId |-> b, status |-> st, progress |-> p, currentStep |-> step,
   downloadUrl |-> url, error |-> err, createdAt |-> 1]

\* Snapshots an earlier session can have left: none, or a Task being processed.
Snapshots ==
  {<<>>,
   <<Persisted("processing", 1, 40, "OCR", NoUrl, "absent")>>}

\* A snapshot whose Task holds a raw status: Task['status'] admits 'failed'
\* and 'cancelled', and TaskCard's displayStatus and restoreProcessingTasks
\* provide for Tasks that hold them.
LegacySnapshots ==
  {<<Persisted("failed", 1, 40, "OCR", NoUrl, "absent")>>}

\* A snapshot that holds a completed Task; the credential entries are kept
\* under keys of their own and may be gone when the snapshot is not.
CompletedSnapshots ==
  {<<Persisted("completed", 1, 100, "OCR", ApiUrl(1), "absent")>>}

BidsOf(list) == {list[i].backendId : i \in 1..Len(list)} \ {0}

StoreAsConstructed ==
  /\ scope \in {"one", "many", "legacy", "events", "download"}
  /\ tasks = <<>>
  /\ obj = [o \in ObjIds |-> NoTask]
  /\ nextObj = 1
  /\ authToken = 0
  /\ userId = 0
  /\ \E k \in {0, 1} : lsToken = k /\ lsUserId = k /\ nextTok = k + 1
  /\ scope \in {"many", "events"} => lsToken # 0
  /\ \E snap \in (IF scope = "legacy" THEN LegacySnapshots
                  ELSE IF scope = "download" THEN Snapshots \cup CompletedSnapshots
                  ELSE Snapshots) :
        /\ lsTasks = [present |-> snap # <<>>, list |-> snap]
        /\ srvJobs = BidsOf(snap)
        /\ nextBid = Cardinality(BidsOf(snap)) + 1
  /\ progressStreams = [b \in Bids |-> 0]
  /\ es = [s \in Sids |-> NoStream]
  /\ timers = [o \in ObjIds |-> 0]
  /\ trk = [o \in ObjIds |-> 0]
  /\ initPc = "new"
  /\ sub = [o \in ObjIds |-> NoCall]
  /\ del = [o \in ObjIds |-> NoCall]
  /\ clr = "idle"
  /\ deletions = 0
  /\ delivered = NoDelivery

Init == StoreAsConstructed /\ scope # "download" /\ pure = NoEval /\ dl = NoDownload

InRegistry(o) == IndexOf(tasks, o) # 0

\* The inputs and the Task objects of the family of runs being explored
EventsIn == IF scope \in {"one", "events"} THEN Events ELSE CoreEvents
SrvRecordsIn(b) == IF scope = "one" THEN SrvRecords(b) ELSE CoreSrvRecords(b)
CreateStatusesIn == IF scope = "one" THEN CreateStatuses ELSE CoreCreateStatuses
FailKindsIn == IF scope = "one" THEN FailKinds ELSE CoreFailKinds
ObjCap == IF scope = "many" THEN MaxObj ELSE 1

-----------------------------------------------------------------------------
(* init() *)

\* JSON.parse(saved): one new Task object per persisted record
parseSnapshot(S) ==
  IF ~S.lsTasks.present THEN S
  ELSE LET n == Len(S.lsTasks.list)
       IN [S EXCEPT
             !.obj = [o \in ObjIds |-> IF o <= n THEN [S.lsTasks.list[o] EXCEPT !.id = o]
                                       ELSE NoTask],
             !.tasks = [i \in 1..n |-> i],
             !.nextObj = n + 1]

\* init, lines 63-77: load the credential and the snapshot, then ensureAuth
InitStart ==
  /\ initPc = "new"
  /\ LET S == ensureAuthCached(parseSnapshot(loadAuthFromStorage(Cur)))
     IN /\ Commit(S)
        /\ initPc' = IF S.authToken # 0 THEN "fetch" ELSE "auth"
  /\ UNCHANGED <<sub, del, clr, srvJobs, nextBid, nextTok, deletions, scope>>

\* the guest-session response of init's ensureAuth: {token, userId}
InitAuthOk ==
  /\ initPc = "auth"
  /\ nextTok <= MaxTok
  /\ Commit(guestAnswered(Cur, GuestOk(nextTok)))
  /\ nextTok' = nextTok + 1
  /\ initPc' = "fetch"
  /\ UNCHANGED <<sub, del, clr, srvJobs, nextBid, deletions, scope>>

\* the guest-session request failed (lines 163, 165, 168): init skips the list
InitAuthFail ==
  /\ initPc = "auth"
  /\ \E r \in GuestFailures(nextTok) :
        Commit(restoreProcessingTasks(guestAnswered(Cur, r)))
  /\ initPc' = "done"
  /\ UNCHANGED <<sub, del, clr, srvJobs, nextBid, nextTok, deletions, scope>>

RECURSIVE ListOf(_, _)
ListOf(J, f) ==
  IF J = {} THEN <<>> ELSE <<f[Min(J)]>> \o ListOf(J \ {Min(J)}, f)
\* the server's list: the records of the jobs J, oldest first

\* The task arrays GET /api/tasks may carry: one record for each job of
\* some of the caller's jobs
ServerLists ==
  UNION {{ListOf(J, f) : f \in {g \in [J -> UNION {SrvRecordsIn(b) : b \in Bids}] :
                                    \A b \in J : g[b].id = b}} :
         J \in SUBSET srvJobs}

\* GET /api/tasks answered with a task array (lines 87-129, 136)
InitFetchOk ==
  /\ initPc = "fetch"
  /\ \E list \in ServerLists :
        Commit(restoreProcessingTasks(mergeServerTasks(Cur, list)))
  /\ initPc' = "done"
  /\ UNCHANGED <<sub, del, clr, srvJobs, nextBid, nextTok, deletions, scope>>

\* GET /api/tasks failed, threw, or carried no task array (lines 87, 90, 131, 136)
InitFetchFail ==
  /\ initPc = "fetch"
  /\ Commit(restoreProcessingTasks(Cur))
  /\ initPc' = "done"
  /\ UNCHANGED <<sub, del, clr, srvJobs, nextBid, nextTok, deletions, scope>>

-----------------------------------------------------------------------------
(* createTask, submitTask, retryTask *)

\* submitTask, lines 205-208: where the call suspends
submitPc(S) == IF S.authToken # 0 THEN "post" ELSE "auth"

CreateTask ==
  /\ initPc # "new"
  /\ nextObj <= ObjCap
  /\ LET o == nextObj
         S == ensureAuthCached(saveToStorage(
                 [Cur EXCEPT !.obj[o] = NewTask(o), !.tasks = <<o>> \o @,
                             !.nextObj = o + 1]))
     IN /\ Commit(S)
        /\ sub' = [sub EXCEPT ![o] = [NoCall EXCEPT !.pc = submitPc(S)]]
  /\ UNCHANGED <<initPc, del, clr, srvJobs, nextBid, nextTok, deletions, scope>>

\* TaskCard.vue, lines 84-87
displayStatus(o) ==
  IF obj[o].status \in {"failed", "cancelled"} THEN "error" ELSE obj[o].status

\* The retry button of a Task card (TaskCard.vue line 55) is shown for a Task
\* of the registry whose displayStatus is error.
RetryTask(o) ==
  /\ initPc # "new"
  /\ InRegistry(o)
  /\ displayStatus(o) = "error"
  /\ sub[o].pc = "idle"
  /\ LET S == ensureAuthCached(retryReset(Cur, o))
     IN /\ Commit(S)
        /\ sub' = [sub EXCEPT ![o] = [NoCall EXCEPT !.pc = submitPc(S)]]
  /\ UNCHANGED <<initPc, del, clr, srvJobs, nextBid, nextTok, deletions, scope>>

SubmitAuthOk(o) ==
  /\ sub[o].pc = "auth"
  /\ nextTok <= MaxTok
  /\ Commit(guestAnswered(Cur, GuestOk(nextTok)))
  /\ nextTok' = nextTok + 1
  /\ sub' = [sub EXCEPT ![o].pc = "post"]
  /\ UNCHANGED <<initPc, del, clr, srvJobs, nextBid, deletions, scope>>

SubmitAuthFail(o) ==
  /\ sub[o].pc = "auth"
  /\ \E r \in GuestFailures(nextTok) :
        Commit(submitAuthFailed(guestAnswered(Cur, r), o))
  /\ sub' = [sub EXCEPT ![o] = NoCall]
  /\ UNCHANGED <<initPc, del, clr, srvJobs, nextBid, nextTok, deletions, scope>>

\* the backend creates the job of a POST /api/tasks it received and answers
\* {taskId, status?}, or the job is created and the request still fails
ServerAccept(o) ==
  /\ sub[o].pc = "post"
  /\ nextBid <= MaxBid
  /\ srvJobs' = srvJobs \cup {nextBid}
  /\ nextBid' = nextBid + 1
  /\ \E raw \in CreateStatusesIn \cup FailKindsIn :
        sub' = [sub EXCEPT ![o] = [pc |-> "resp", bid |-> nextBid, idx |-> 0,
                                   raw |-> raw]]
  /\ Commit(Cur)
  /\ UNCHANGED <<initPc, del, clr, nextTok, deletions, scope>>

\* the backend refuses a POST /api/tasks, or the request does not reach it
ServerReject(o) ==
  /\ sub[o].pc = "post"
  /\ \E raw \in FailKindsIn :
        sub' = [sub EXCEPT ![o] = [pc |-> "resp", bid |-> 0, idx |-> 0, raw |-> raw]]
  /\ Commit(Cur)
  /\ UNCHANGED <<initPc, del, clr, srvJobs, nextBid, nextTok, deletions, scope>>

\* the creation response arrives
SubmitOk(o) ==
  /\ sub[o].pc = "resp"
  /\ sub[o].raw \notin FailKinds
  /\ Commit(submitSucceeded(Cur, o, sub[o].bid, sub[o].raw))
  /\ sub' = [sub EXCEPT ![o] = NoCall]
  /\ UNCHANGED <<initPc, del, clr, srvJobs, nextBid, nextTok, deletions, scope>>

\* a non-success creation response, or fetch throwing
SubmitFail(o) ==
  /\ sub[o].pc = "resp"
  /\ sub[o].raw \in FailKinds
  /\ Commit(submitFailed(Cur, o, sub[o].raw))
  /\ sub' = [sub EXCEPT ![o] = NoCall]
  /\ UNCHANGED <<initPc, del, clr, srvJobs, nextBid, nextTok, deletions, scope>>

-----------------------------------------------------------------------------
(* startProgressTracking after a guest-session request, streams, timers *)

\* lines 268, 277-282: the credential arrived; the stream is opened
TrackAuthOk(o) ==
  /\ trk[o] > 0
  /\ nextTok <= MaxTok
  /\ Commit(OpenStream(guestAnswered([Cur EXCEPT !.trk[o] = @ - 1], GuestOk(nextTok)), o))
  /\ nextTok' = nextTok + 1
  /\ UNCHANGED <<initPc, sub, del, clr, srvJobs, nextBid, deletions, scope>>

TrackAuthFail(o) ==
  /\ trk[o] > 0
  /\ \E r \in GuestFailures(nextTok) :
        Commit(trackAuthFailed(guestAnswered([Cur EXCEPT !.trk[o] = @ - 1], r), o))
  /\ UNCHANGED <<initPc, sub, del, clr, srvJobs, nextBid, nextTok, deletions, scope>>

\* An open EventSource delivers a progress record.
StreamMessage(s) ==
  /\ es[s].open
  /\ \E ev \in EventsIn : Commit(onmessage(Cur, s, MessageEvent(s, TRUE, ev)))
  /\ UNCHANGED <<initPc, sub, del, clr, srvJobs, nextBid, nextTok, deletions, scope>>

\* An open EventSource delivers data JSON.parse rejects (lines 305-307).
StreamParseError(s) ==
  /\ es[s].open
  /\ Commit(onmessage(Cur, s, MessageEvent(s, FALSE, NoRecord)))
  /\ UNCHANGED <<initPc, sub, del, clr, srvJobs, nextBid, nextTok, deletions, scope>>

\* The transport of an open EventSource fails.
StreamError(s) ==
  /\ es[s].open
  /\ timers[es[s].task] < MaxTimers
  /\ Commit(onerror(Cur, s))
  /\ UNCHANGED <<initPc, sub, del, clr, srvJobs, nextBid, nextTok, deletions, scope>>

\* A reconnect timer expires.
TimerFire(o) ==
  /\ timers[o] > 0
  /\ Commit(timerFired(Cur, o))
  /\ UNCHANGED <<initPc, sub, del, clr, srvJobs, nextBid, nextTok, deletions, scope>>

-----------------------------------------------------------------------------
(* deleteTask, clearAllTasks *)

\* deleteTask, lines 329-338
DeleteTask(o) ==
  /\ initPc # "new"
  /\ deletions < MaxDeletions
  /\ deletions' = deletions + 1
  /\ UNCHANGED scope
  /\ InRegistry(o)
  /\ del[o].pc = "idle"
  /\ IF obj[o].backendId = 0
     THEN /\ Commit(saveToStorage([Cur EXCEPT !.tasks = Splice(@, IndexOf(tasks, o))]))
          /\ UNCHANGED del
     ELSE LET S == ensureAuthCached(Cur)
          IN /\ Commit(S)
             /\ del' = [del EXCEPT ![o] =
                          [pc |-> IF S.authToken # 0 THEN "delete" ELSE "auth",
                           bid |-> obj[o].backendId, idx |-> IndexOf(tasks, o),
                           raw |-> "none"]]
  /\ UNCHANGED <<initPc, sub, clr, srvJobs, nextBid, nextTok>>

DeleteAuthOk(o) ==
  /\ del[o].pc = "auth"
  /\ nextTok <= MaxTok
  /\ Commit(guestAnswered(Cur, GuestOk(nextTok)))
  /\ nextTok' = nextTok + 1
  /\ del' = [del EXCEPT ![o].pc = "delete", ![o].bid = obj[o].backendId]
  /\ UNCHANGED <<initPc, sub, clr, srvJobs, nextBid, deletions, scope>>

\* lines 339-344
DeleteAuthFail(o) ==
  /\ del[o].pc = "auth"
  /\ \E r \in GuestFailures(nextTok) :
        Commit(saveToStorage([guestAnswered(Cur, r) EXCEPT !.obj[o].error = "authFailed"]))
  /\ del' = [del EXCEPT ![o] = NoCall]
  /\ UNCHANGED <<initPc, sub, clr, srvJobs, nextBid, nextTok, deletions, scope>>

\* lines 354-357: DELETE /api/tasks/{id} acknowledged
deleteSucceeded(S, o, idx) ==
  saveToStorage([stopProgressTracking(S, S.obj[o].backendId)
                   EXCEPT !.tasks = Splice(@, idx)])

DeleteOk(o) ==
  /\ del[o].pc = "delete"
  /\ Commit(deleteSucceeded(Cur, o, del[o].idx))
  /\ srvJobs' = srvJobs \ {del[o].bid}
  /\ del' = [del EXCEPT ![o] = NoCall]
  /\ UNCHANGED <<initPc, sub, clr, nextBid, nextTok, deletions, scope>>

\* lines 358-363
DeleteFail(o) ==
  /\ del[o].pc = "delete"
  /\ \E kind \in FailKindsIn :
        Commit(saveToStorage([Cur EXCEPT !.obj[o].error = caughtMessage(kind)]))
  /\ del' = [del EXCEPT ![o] = NoCall]
  /\ UNCHANGED <<initPc, sub, clr, srvJobs, nextBid, nextTok, deletions, scope>>

\* clearAllTasks, lines 367-371
ClearAllTasks ==
  /\ initPc # "new"
  /\ deletions < MaxDeletions
  /\ deletions' = deletions + 1
  /\ UNCHANGED scope
  /\ clr \in {"idle", "cleared", "failed"}
  /\ LET S == ensureAuthCached(Cur)
     IN /\ Commit(S)
        /\ clr' = IF S.authToken # 0 THEN "delete" ELSE "auth"
  /\ UNCHANGED <<initPc, sub, del, srvJobs, nextBid, nextTok>>

ClearAuthOk ==
  /\ clr = "auth"
  /\ nextTok <= MaxTok
  /\ Commit(guestAnswered(Cur, GuestOk(nextTok)))
  /\ nextTok' = nextTok + 1
  /\ clr' = "delete"
  /\ UNCHANGED <<initPc, sub, del, srvJobs, nextBid, deletions, scope>>

ClearAuthFail ==
  /\ clr = "auth"
  /\ \E r \in GuestFailures(nextTok) : Commit(guestAnswered(Cur, r))
  /\ clr' = "failed"
  /\ UNCHANGED <<initPc, sub, del, srvJobs, nextBid, nextTok, deletions, scope>>

RECURSIVE stopAll(_, _)
stopAll(S, keys) ==
  IF keys = {} THEN S ELSE stopAll(stopProgressTracking(S, Min(keys)), keys \ {Min(keys)})

\* lines 381-384: DELETE /api/tasks acknowledged
clearSucceeded(S) ==
  [stopAll(S, {b \in Bids : S.progressStreams[b] # 0})
     EXCEPT !.tasks = <<>>, !.lsTasks = [present |-> FALSE, list |-> <<>>]]

ClearOk ==
  /\ clr = "delete"
  /\ Commit(clearSucceeded(Cur))
  /\ srvJobs' = {}
  /\ clr' = "cleared"
  /\ UNCHANGED <<initPc, sub, del, nextBid, nextTok, deletions, scope>>

clearFailed_clears(S) == clearSucceeded(S)

\* lines 385-387: the catch block only logs
clearFailed(S) == S

ClearFail ==
  /\ clr = "delete"
  /\ Commit(clearFailed(Cur))
  /\ clr' = "failed"
  /\ UNCHANGED <<initPc, sub, del, srvJobs, nextBid, nextTok, deletions, scope>>

-----------------------------------------------------------------------------
(* Specification *)

Next ==
  \/ InitStart
  \/ InitAuthOk
  \/ InitAuthFail
  \/ InitFetchOk
  \/ InitFetchFail
  \/ CreateTask
  \/ \E o \in ObjIds : RetryTask(o)
  \/ \E o \in ObjIds : SubmitAuthOk(o)
  \/ \E o \in ObjIds : SubmitAuthFail(o)
  \/ \E o \in ObjIds : ServerAccept(o)
  \/ \E o \in ObjIds : SubmitOk(o)
  \/ \E o \in ObjIds : ServerReject(o)
  \/ \E o \in ObjIds : SubmitFail(o)
  \/ \E o \in ObjIds : TrackAuthOk(o)
  \/ \E o \in ObjIds : TrackAuthFail(o)
  \/ \E s \in Sids : StreamMessage(s)
  \/ \E s \in Sids : StreamParseError(s)
  \/ \E s \in Sids : StreamError(s)
  \/ \E o \in ObjIds : TimerFire(o)
  \/ \E o \in ObjIds : DeleteTask(o)
  \/ \E o \in ObjIds : DeleteAuthOk(o)
  \/ \E o \in ObjIds : DeleteAuthFail(o)
  \/ \E o \in ObjIds : DeleteOk(o)
  \/ \E o \in ObjIds : DeleteFail(o)
  \/ ClearAllTasks
  \/ ClearAuthOk
  \/ ClearAuthFail
  \/ ClearOk
  \/ ClearFail

Spec == Init /\ [][Next]_vars

\* The runs with one Task object, every input and any storage
InitLive == Init /\ scope = "one"

\* setTimeout callbacks run: a pending reconnect timer eventually expires.
SpecLive == InitLive /\ [][Next]_vars /\ \A o \in ObjIds : WF_vars(TimerFire(o))

-----------------------------------------------------------------------------
(* The pure functions of the module, each applied to every input of a      *)
(* bounded set                                                              *)

MaxListLen == 3
MaxUrlLen == 3
MaxTokenLen == 2

\* Status strings: the six known terms, a missing status, the empty string
\* and strings outside the vocabulary
StatusInputs ==
  {"pending", "processing", "completed", "error", "failed", "cancelled",
   "absent", "", "queued", "running", "PENDING", "Completed", "done"}

\* Registries of up to MaxListLen Tasks, as the fields sortedTasks reads;
\* id is the Task's position in the registry
TaskLists ==
  UNION {{l \in [1..n -> [id : 1..MaxListLen,
                          status : {"processing", "pending", "completed", "error",
                                    "failed", "cancelled"},
                          createdAt : 1..2]] :
             \A i \in 1..n : l[i].id = i} : n \in 0..MaxListLen}

SeqsOver(A, lo, hi) == UNION {[1..n -> A] : n \in lo..hi}

\* URLs with and without a query string, and credentials with and without
\* characters that need encoding
UrlInputs == SeqsOver({"/api/tasks/1/download", "?", "x=1", "&"}, 0, MaxUrlLen)
TokenInputs == SeqsOver({"T", "9", "+"}, 1, MaxTokenLen)

Evals ==
  {[fn |-> "normalizeStatus", arg |-> s, done |-> FALSE, res |-> s] : s \in StatusInputs}
  \cup {[fn |-> "sortedTasks", arg |-> l, done |-> FALSE, res |-> l] : l \in TaskLists}
  \cup {[fn |-> "withTokenQuery", arg |-> [url |-> u, token |-> k], done |-> FALSE,
         res |-> u] : u \in UrlInputs, k \in TokenInputs}

InitPure ==
  /\ StoreAsConstructed
  /\ scope = "one"
  /\ lsToken = 0
  /\ ~lsTasks.present
  /\ pure \in Evals
  /\ dl = NoDownload

EvalNormalizeStatus ==
  /\ pure.fn = "normalizeStatus"
  /\ ~pure.done
  /\ pure' = [pure EXCEPT !.done = TRUE, !.res = normalizeStatus(pure.arg)]
  /\ UNCHANGED storeVars

EvalSortedTasks ==
  /\ pure.fn = "sortedTasks"
  /\ ~pure.done
  /\ pure' = [pure EXCEPT !.done = TRUE, !.res = sortedTasks(pure.arg)]
  /\ UNCHANGED storeVars

EvalWithTokenQuery ==
  /\ pure.fn = "withTokenQuery"
  /\ ~pure.done
  /\ pure' = [pure EXCEPT !.done = TRUE,
                          !.res = withTokenQuery(pure.arg.url, pure.arg.token)]
  /\ UNCHANGED storeVars

NextPure == EvalNormalizeStatus \/ EvalSortedTasks \/ EvalWithTokenQuery

SpecPure == InitPure /\ [][NextPure]_vars

-----------------------------------------------------------------------------
(* downloadResult, lines 390-425, called while the store runs              *)

\* lines 396-402 and 409: ensureAuth has returned; without a credential the
\* raw URL is opened in a new window, with one the report is fetched from
\* withTokenQuery(rawDownloadUrl, authToken) under a Bearer header
downloadAuthed(S, o) ==
  IF S.authToken = 0
  THEN [S EXCEPT !.dl = [pc |-> "idle", o |-> o, token |-> 0, out |-> "openedRaw"]]
  ELSE [S EXCEPT !.dl = [pc |-> "fetch", o |-> o, token |-> S.authToken,
                         out |-> "none"]]

\* lines 413-420: the response is ok and its blob is saved through a link
downloadFetched(S) == [S EXCEPT !.dl.pc = "idle", !.dl.out = "saved"]

downloadFailed_recordsError(S) ==
  saveToStorage([S EXCEPT !.dl.pc = "idle", !.dl.out = "openedWithToken",
                          !.obj[S.dl.o].status = "error",
                          !.obj[S.dl.o].error = "http"])

\* lines 411 and 421-424: the response is not ok, or fetch or blob() threw;
\* the URL that carries the credential is opened in a new window
downloadFailed(S) == [S EXCEPT !.dl.pc = "idle", !.dl.out = "openedWithToken"]

\* lines 390-396: return without a downloadUrl, else ensureAuth
DownloadResult(o) ==
  /\ dl.pc = "idle"
  /\ InRegistry(o)
  /\ IF obj[o].downloadUrl = NoUrl
     THEN Commit([Cur EXCEPT !.dl = [pc |-> "idle", o |-> o, token |-> 0,
                                     out |-> "returned"]])
     ELSE LET S == ensureAuthCached(Cur)
          IN IF S.authToken # 0
             THEN Commit(downloadAuthed(S, o))
             ELSE Commit([S EXCEPT !.dl = [pc |-> "auth", o |-> o, token |-> 0,
                                           out |-> "none"]])
  /\ UNCHANGED <<initPc, sub, del, clr, srvJobs, nextBid, nextTok, deletions, scope>>

\* the guest-session response of downloadResult's ensureAuth: {token, userId}
DownloadAuthOk ==
  /\ dl.pc = "auth"
  /\ nextTok <= MaxTok
  /\ Commit(downloadAuthed(guestAnswered(Cur, GuestOk(nextTok)), dl.o))
  /\ nextTok' = nextTok + 1
  /\ UNCHANGED <<initPc, sub, del, clr, srvJobs, nextBid, deletions, scope>>

\* the guest-session request failed: ensureAuth returns false
DownloadAuthFail ==
  /\ dl.pc = "auth"
  /\ \E r \in GuestFailures(nextTok) :
        LET S == guestAnswered(Cur, r)
        IN Commit([S EXCEPT !.dl = [pc |-> "idle", o |-> dl.o, token |-> 0,
                                    out |-> "openedRaw"]])
  /\ UNCHANGED <<initPc, sub, del, clr, srvJobs, nextBid, nextTok, deletions, scope>>

DownloadFetchOk ==
  /\ dl.pc = "fetch"
  /\ Commit(downloadFetched(Cur))
  /\ UNCHANGED <<initPc, sub, del, clr, srvJobs, nextBid, nextTok, deletions, scope>>

DownloadFetchFail ==
  /\ dl.pc = "fetch"
  /\ Commit(downloadFailed(Cur))
  /\ UNCHANGED <<initPc, sub, del, clr, srvJobs, nextBid, nextTok, deletions, scope>>

NextDownload ==
  \/ Next
  \/ \E o \in ObjIds : DownloadResult(o)
  \/ DownloadAuthOk
  \/ DownloadAuthFail
  \/ DownloadFetchOk
  \/ DownloadFetchFail

\* The runs with one Task object, the core inputs and any storage, a
\* snapshot with a completed Task included, in which the user also
\* downloads results
InitDownload ==
  StoreAsConstructed /\ scope = "download" /\ pure = NoEval /\ dl = NoDownload

SpecDownload == InitDownload /\ [][NextDownload]_vars

-----------------------------------------------------------------------------
(* Properties *)

Registry == SeqToSet(tasks)
LiveOn(b) == {s \in Sids : es[s].open /\ es[s].url = b}
\* the open EventSources of job b's progress stream
LiveFor(o) == {s \in Sids : es[s].open /\ es[s].task = o}
\* the open EventSources whose handlers write Task object o

\* C1: in every reachable state at most one subscription is live (opened and
\* not closed) for each backendId.
C1_OneLivePerBackendId ==
  \A b \in Bids : Cardinality(LiveOn(b)) <= 1

\* C2: in every reachable state, a Task that has a backendId has at most one
\* live subscription whose handlers update it.
C2_OneLivePerTask ==
  \A o \in ObjIds : obj[o].backendId # 0 => Cardinality(LiveFor(o)) <= 1

\* C3: in every reachable state no two Tasks of the registry carry the same
\* backendId.
C3_BackendIdUnique ==
  \A i, j \in 1..Len(tasks) :
     (i # j /\ obj[tasks[i]].backendId # 0)
        => obj[tasks[i]].backendId # obj[tasks[j]].backendId

\* C4: in every reachable state the status of every Task of the registry is
\* one of pending, processing, completed, error (the persisted snapshot
\* holding normalized statuses only).
C4_StatusNormalized ==
  scope # "legacy" => \A o \in Registry : obj[o].status \in Statuses

\* C4 witness: a Task whose status came from a server record that said
\* failed or cancelled
C4_Witness ==
  /\ scope # "legacy"
  /\ \E o \in Registry : obj[o].status = "error" /\ obj[o].error = "srvErr"

\* C5: in every reachable state a Task has a downloadUrl if and only if its
\* status is completed.
C5_DownloadUrlIffCompleted ==
  \A o \in Registry : (obj[o].downloadUrl # NoUrl) <=> (obj[o].status = "completed")

\* C6: in every reachable state a Task has an error message if and only if
\* its status is error.
C6_ErrorIffStatusError ==
  \A o \in Registry : (obj[o].error # "absent") <=> (obj[o].status = "error")

\* C7: in every reachable state every Task's progress is an integer in
\* 0..100, and every completed Task has progress 100.
C7_ProgressRange ==
  \A o \in Registry :
     /\ obj[o].progress \in 0..100
     /\ obj[o].status = "completed" => obj[o].progress = 100

C9_ErrorClosesThenTimerReopens ==
  [][/\ \A s \in Sids :
          (/\ es[s].open
           /\ obj[es[s].task].status = "processing"
           /\ timers'[es[s].task] > timers[es[s].task])
             => /\ ~es'[s].open
                /\ \A b \in Bids : progressStreams'[b] # s
     /\ \A o \in ObjIds :
          (timers'[o] > 0 /\ obj'[o].status = "processing" /\ obj'[o].backendId # 0)
             => {s \in Sids : es'[s].open /\ es'[s].url = obj'[o].backendId} = {}
     /\ \A o \in ObjIds :
          (timers'[o] < timers[o] /\ obj[o].status = "processing" /\ authToken # 0)
             => Cardinality({s \in Sids : /\ es'[s].open
                                          /\ ~es[s].open \/ es'[s] # es[s]
                                          /\ es'[s].url = obj[o].backendId}) = 1
    ]_vars

\* C10: a Task that stays in the registry with status processing and has a
\* reconnect timer pending eventually has a live subscription again, however
\* many transport errors came before.
C10_ReconnectsForever ==
  \A o \in ObjIds :
     (timers[o] > 0 /\ InRegistry(o) /\ obj[o].status = "processing")
        ~> (LiveFor(o) # {} \/ ~InRegistry(o) \/ obj[o].status # "processing")

\* C10 witness: a transport error has closed the only subscription of a
\* processing Task of the registry, and its reconnect timer is pending
C10_Witness ==
  \E o \in Registry :
     /\ timers[o] > 0
     /\ obj[o].status = "processing"
     /\ LiveFor(o) = {}
     /\ authToken # 0

\* C11: a reconnect timer of a Task that a successful deleteTask or
\* clearAllTasks has removed from the registry opens no subscription for the
\* Task when it fires.
C11_NoStaleReconnect ==
  [][\A o \in ObjIds :
        (timers'[o] < timers[o] /\ ~InRegistry(o))
           => \A s \in Sids :
                 ~(/\ es'[s].open
                   /\ ~es[s].open \/ es'[s] # es[s]
                   /\ es'[s].task = o)]_vars

\* C12: the step in which clearAllTasks handles the server's acknowledgement
\* leaves no subscription open, no entry in progressStreams, an empty task
\* list and no persisted snapshot.
C12_ClearAllClosesEverything ==
  [][(clr = "delete" /\ clr' = "cleared")
        => /\ \A s \in Sids : ~es'[s].open
           /\ \A b \in Bids : progressStreams'[b] = 0
           /\ tasks' = <<>>
           /\ ~lsTasks'.present]_vars

\* C13: no step of a clearAllTasks call that fails (no credential, the DELETE
\* request throwing or answered with a non-success status) changes the task
\* list, the Tasks' fields, the persisted snapshot, the EventSources or
\* progressStreams; nor does any earlier step of the call.
C13_ClearAllFailureChangesNothing ==
  [][(clr' # clr /\ clr' # "cleared")
        => /\ tasks' = tasks
           /\ obj' = obj
           /\ lsTasks' = lsTasks
           /\ es' = es
           /\ progressStreams' = progressStreams]_vars

\* C13 witness: clearAllTasks has failed over a registry that holds a Task
\* with a live subscription and a persisted snapshot
C13_Witness ==
  /\ clr = "failed"
  /\ lsTasks.present
  /\ \E o \in Registry : \E b \in Bids :
        /\ progressStreams[b] # 0
        /\ es[progressStreams[b]].open
        /\ es[progressStreams[b]].task = o

\* C14: once init has loaded the snapshot, at every point where the store
\* yields control the persisted snapshot is the serialization of the task
\* list, an absent snapshot counting as the empty list.
C14_SnapshotIsSerialization ==
  initPc # "new"
     => (IF lsTasks.present THEN lsTasks.list ELSE <<>>) = Serialize(Cur)

\* C15: once a token is held in memory it never changes, and once a token is
\* stored it never changes.
C15_TokenNeverChanges ==
  [][/\ authToken # 0 => authToken' = authToken
     /\ lsToken # 0 => lsToken' = lsToken]_vars

\* C16: (a) a step issues a guest-session request only when no token is held
\* in memory and none is stored; (b) while a token is held or stored, a step
\* in which the backend issues no credential leaves the stored credential as
\* it was; (c) a step that handles a successful guest-session response leaves
\* the issued token and userId both in memory and in storage.
C16_GuestRequestOnlyWithoutToken ==
  [][/\ (\/ initPc' = "auth" /\ initPc # "auth"
         \/ clr' = "auth" /\ clr # "auth"
         \/ \E o \in ObjIds : \/ sub'[o].pc = "auth" /\ sub[o].pc # "auth"
                              \/ del'[o].pc = "auth" /\ del[o].pc # "auth"
                              \/ trk'[o] > trk[o])
          => authToken = 0 /\ lsToken = 0
     /\ ((authToken # 0 \/ lsToken # 0) /\ nextTok' = nextTok)
          => lsToken' = lsToken /\ lsUserId' = lsUserId
     /\ nextTok' # nextTok
          => /\ authToken' = nextTok /\ userId' = nextTok
             /\ lsToken' = nextTok /\ lsUserId' = nextTok]_vars

\* C16 witness: guest-session requests were issued and answered, and the
\* credential of the last answer is held and stored
C16_Witness ==
  nextTok = 3 /\ authToken = 2 /\ userId = 2 /\ lsToken = 2 /\ lsUserId = 2

\* C17: a step that handles a failed guest-session request (the request
\* throwing, a non-success status, a body lacking token or userId) leaves the
\* token and userId in memory and in storage as they were; and storage never
\* holds a token without a userId or a userId without a token.
C17_AuthFailureChangesNothing ==
  [][/\ (/\ nextTok' = nextTok
         /\ \/ initPc = "auth" /\ initPc' # "auth"
            \/ clr = "auth" /\ clr' # "auth"
            \/ \E o \in ObjIds : \/ sub[o].pc = "auth" /\ sub'[o].pc # "auth"
                                 \/ del[o].pc = "auth" /\ del'[o].pc # "auth"
                                 \/ trk'[o] < trk[o])
          => /\ authToken' = authToken /\ userId' = userId
             /\ lsToken' = lsToken /\ lsUserId' = lsUserId
     /\ (lsToken' = 0) <=> (lsUserId' = 0)]_vars

\* C17 witness: init's guest-session request has failed and no credential is
\* held or stored
C17_Witness ==
  /\ initPc = "done"
  /\ nextTok = 1
  /\ authToken = 0 /\ userId = 0 /\ lsToken = 0 /\ lsUserId = 0

\* C18: (a) the step in which createTask starts puts exactly one new Task,
\* with status pending and no backendId, at the front of the registry and
\* changes no other Task; (b) the step that handles a creation response
\* whose status normalizes to processing (or is missing) leaves the Task with
\* the returned taskId as backendId and status processing, and opens exactly
\* one subscription, which is for that backendId and that Task.
C18_CreateThenTrack ==
  [][\A o \in ObjIds :
        /\ (obj[o] = NoTask /\ sub'[o].pc # "idle")
             => /\ tasks' = <<o>> \o tasks
                /\ obj'[o].status = "pending"
                /\ obj'[o].backendId = 0
                /\ \A p \in ObjIds \ {o} : obj'[p] = obj[p]
        /\ (/\ sub[o].pc = "resp"
            /\ sub'[o].pc = "idle"
            /\ sub[o].raw \notin FailKinds
            /\ normalizeStatus(IF sub[o].raw = "absent" THEN "processing"
                               ELSE sub[o].raw) = "processing")
             => /\ obj'[o].backendId = sub[o].bid
                /\ obj'[o].status = "processing"
                /\ Cardinality({s \in Sids : /\ es'[s].open
                                             /\ ~es[s].open \/ es'[s] # es[s]}) = 1
                /\ \A s \in Sids :
                      (es'[s].open /\ (~es[s].open \/ es'[s] # es[s]))
                         => es'[s].url = sub[o].bid /\ es'[s].task = o]_vars

\* C18 witness: the creation response of a Task of the registry was handled
\* and the Task is processing under its backendId with one live subscription
C18_Witness ==
  \E o \in Registry :
     /\ obj[o].backendId # 0
     /\ obj[o].status = "processing"
     /\ obj[o].currentStep = "running"
     /\ obj[o].progress = 0
     /\ sub[o].pc = "idle"
     /\ Cardinality(LiveFor(o)) = 1
     /\ \A s \in LiveFor(o) : es[s].url = obj[o].backendId

\* C19: the step that handles a creation response whose status is completed
\* leaves the Task with the returned backendId, status completed, progress
\* 100 and the download URL of that backendId, and changes no EventSource
\* and no entry of progressStreams.
C19_ReusedReportOpensNoStream ==
  [][\A o \in ObjIds :
        (sub[o].pc = "resp" /\ sub'[o].pc = "idle" /\ sub[o].raw = "completed")
           => /\ obj'[o].backendId = sub[o].bid
              /\ obj'[o].status = "completed"
              /\ obj'[o].progress = 100
              /\ obj'[o].downloadUrl = ApiUrl(sub[o].bid)
              /\ es' = es
              /\ progressStreams' = progressStreams]_vars

\* C19 witness: a Task of the registry holds a reused report and has no
\* subscription
C19_Witness ==
  \E o \in Registry :
     /\ obj[o].backendId # 0
     /\ obj[o].status = "completed"
     /\ obj[o].currentStep = "reused"
     /\ obj[o].progress = 100
     /\ obj[o].downloadUrl = ApiUrl(obj[o].backendId)
     /\ LiveFor(o) = {}

\* C20: the step in which submitTask learns that no credential can be
\* obtained sets the Task's status to error with the authentication-failure
\* message and ends the call: no creation request reaches the backend, the
\* Task's backendId is as it was, and no EventSource, no entry of
\* progressStreams and no pending tracking call changes.
C20_SubmitWithoutCredential ==
  [][\A o \in ObjIds :
        (sub[o].pc = "auth" /\ sub'[o].pc # "auth" /\ nextTok' = nextTok)
           => /\ obj'[o].status = "error"
              /\ obj'[o].error = "authFailed"
              /\ obj'[o].backendId = obj[o].backendId
              /\ sub'[o] = NoCall
              /\ srvJobs' = srvJobs /\ nextBid' = nextBid
              /\ es' = es
              /\ progressStreams' = progressStreams
              /\ trk' = trk]_vars

\* C20 witness: createTask could not obtain a credential; its Task is in
\* error with the authentication-failure message and has no backendId
C20_Witness ==
  \E o \in Registry :
     /\ obj[o].status = "error"
     /\ obj[o].error = "authFailed"
     /\ obj[o].backendId = 0
     /\ sub[o] = NoCall
     /\ LiveFor(o) = {}

-----------------------------------------------------------------------------
(* Failed creation requests *)

\* The step in which submitTask's catch block handles the failed creation
\* request of Task o
SubmitFailedStep(o) ==
  sub[o].pc = "resp" /\ sub[o].raw \in FailKinds /\ sub'[o].pc = "idle"

\* A submission of an existing Task o starts in this step
SubmitStarts(o) ==
  obj[o] # NoTask /\ sub[o].pc = "idle" /\ sub'[o].pc # "idle"

\* C21 as stated: when the creation request fails, by a non-success response
\* or by throwing, the Task gets status error and the message of the
\* structured error body when there is one and the generic HTTP-status
\* message otherwise; its backendId is unchanged, no stream is opened, and
\* a new submission of the Task starts only by the user's retry.
C21_FailedRequestMessageFromBodyOrHttp ==
  [][\A o \in ObjIds :
        /\ SubmitFailedStep(o)
              => /\ obj'[o].status = "error"
                 /\ obj'[o].error = IF sub[o].raw = "detail" THEN "bodyDetail"
                                    ELSE "httpStatusText"
                 /\ obj'[o].backendId = obj[o].backendId
                 /\ es' = es
                 /\ progressStreams' = progressStreams
        /\ SubmitStarts(o)
              => displayStatus(o) = "error" /\ obj'[o].status = "pending"]_vars

\* C21, amended: when the creation request fails, the Task gets status error
\* and a message that is the structured error body's when the response is a
\* non-success one carrying it, the generic HTTP-status message when the
\* response is a non-success one without it, and the thrown error's own
\* message when the request threw; its backendId is unchanged, no stream is
\* opened, and a new submission of the Task starts only by the user's retry.
C21_FailedRequestIsTerminal ==
  [][\A o \in ObjIds :
        /\ SubmitFailedStep(o)
              => /\ obj'[o].status = "error"
                 /\ obj'[o].error = CASE sub[o].raw = "detail" -> "bodyDetail"
                                      [] sub[o].raw = "http" -> "httpStatusText"
                                      [] sub[o].raw = "threw" -> "fetchErrorText"
                 /\ obj'[o].backendId = obj[o].backendId
                 /\ es' = es
                 /\ progressStreams' = progressStreams
        /\ SubmitStarts(o)
              => displayStatus(o) = "error" /\ obj'[o].status = "pending"]_vars

\* A retried Task that keeps its backendId after its creation request threw
C21_Witness ==
  \E o \in ObjIds :
     /\ obj[o] # NoTask
     /\ deletions = 0
     /\ sub[o].pc = "idle"
     /\ obj[o].backendId # 0
     /\ obj[o].status = "error"
     /\ obj[o].error = "fetchErrorText"

-----------------------------------------------------------------------------
(* Stream events *)

\* The step dispatches a MessageEvent whose data parses as a progress record
Delivers == delivered'.sid # 0 /\ delivered'.parses

\* C22: the step in which an open stream delivers a progress record whose
\* status is none of completed, error, failed and cancelled (so it normalizes
\* to pending or processing, an unrecognized status included) leaves the
\* stream's Task with the normalized status of the record and with the
\* progress and the step the record carries, in the Task and in the
\* snapshot, and changes no EventSource and no entry of progressStreams:
\* the stream stays open and registered as it was.  Each record is applied
\* in the step that delivers it, so after the step the Task shows that record.
C22_NonTerminalEventUpdatesTask ==
  [][(Delivers /\ delivered'.data.status \notin {"completed", "error", "failed", "cancelled"})
        => LET s == delivered'.sid
               o == es[s].task
               ev == delivered'.data
           IN /\ es[s].open
              /\ obj'[o].status = (IF ev.status = "pending" THEN "pending" ELSE "processing")
              /\ ev.hasProgress => obj'[o].progress = ev.progress
              /\ ev.step # "absent" => obj'[o].currentStep = ev.step
              /\ InRegistry(o) => lsTasks'.list[IndexOf(tasks, o)] = obj'[o]
              /\ es' = es
              /\ progressStreams' = progressStreams]_vars

\* A record with an unrecognized status has just been delivered on a
\* registered stream: its Task is processing and shows the record
C22_Witness ==
  /\ delivered.sid # 0
  /\ delivered.parses
  /\ delivered.data.status = "queued"
  /\ es[delivered.sid].open
  /\ progressStreams[es[delivered.sid].url] = delivered.sid
  /\ obj[es[delivered.sid].task].status = "processing"
  /\ obj[es[delivered.sid].task].progress = 40
  /\ obj[es[delivered.sid].task].currentStep = "OCR"

\* C23: the step in which an open stream delivers a progress record whose
\* status is error, failed or cancelled leaves the stream's Task with status
\* error and with the record's error message, or the generic fallback when
\* the record carries none; it closes that EventSource and leaves no entry
\* of progressStreams holding it.  An EventSource delivers only while it is
\* open, so no later record of that stream reaches the Task.
C23_ErrorEventClosesStream ==
  [][(Delivers /\ delivered'.data.status \in {"error", "failed", "cancelled"})
        => LET s == delivered'.sid
               o == es[s].task
               ev == delivered'.data
           IN /\ es[s].open
              /\ obj'[o].status = "error"
              /\ obj'[o].error = (IF ev.error # "absent" THEN ev.error ELSE "fallback")
              /\ es'[s] = NoStream \/ (es'[s] = [es[s] EXCEPT !.open = FALSE])
              /\ \A b \in Bids : progressStreams[b] = s => progressStreams'[b] # s]_vars

\* C24: the step in which an open stream delivers a progress record whose
\* status is completed leaves the stream's Task with status completed and
\* with the downloadUrl the record carries; it closes that EventSource and
\* leaves no entry of progressStreams holding it, and after the step no
\* open EventSource exists for the Task's backendId.
C24_CompletedEventClosesStream ==
  [][(Delivers /\ delivered'.data.status = "completed")
        => LET s == delivered'.sid
               o == es[s].task
               ev == delivered'.data
           IN /\ es[s].open
              /\ obj'[o].status = "completed"
              /\ obj'[o].downloadUrl = ev.downloadUrl
              /\ es'[s] = NoStream \/ (es'[s] = [es[s] EXCEPT !.open = FALSE])
              /\ \A b \in Bids : progressStreams[b] = s => progressStreams'[b] # s
              /\ \A s2 \in Sids : es'[s2].open => es'[s2].url # obj'[o].backendId]_vars

\* C25: the step in which an open stream delivers data that JSON.parse
\* rejects changes no Task, not the registry and not the snapshot, and
\* changes no EventSource and no entry of progressStreams: the stream stays
\* open and registered as it was, so it goes on delivering and the records
\* that follow are applied.
C25_ParseErrorChangesNothing ==
  [][(delivered'.sid # 0 /\ ~delivered'.parses)
        => /\ es[delivered'.sid].open
           /\ obj' = obj
           /\ tasks' = tasks
           /\ lsTasks' = lsTasks
           /\ es' = es
           /\ progressStreams' = progressStreams
           /\ timers' = timers]_vars

\* Unparseable data has just been delivered on a registered stream of a
\* Task being processed; the stream is open
C25_Witness ==
  /\ delivered.sid # 0
  /\ ~delivered.parses
  /\ es[delivered.sid].open
  /\ progressStreams[es[delivered.sid].url] = delivered.sid
  /\ obj[es[delivered.sid].task].status = "processing"

-----------------------------------------------------------------------------
(* Reconciliation *)

\* The Tasks of the registry of S whose backendId is b
Holding(S, b) == {i \in 1..Len(S.tasks) : S.obj[S.tasks[i]].backendId = b}

\* C26: whenever init is about to merge a server response, merging that
\* response and then merging it once more gives the registry, the Tasks and
\* the snapshot that merging it once gives: after the first merge every id
\* of the response is held by exactly one Task of the registry, the second
\* merge allocates no Task, and no Task differs after it.
C26_MergeIdempotent ==
  initPc = "fetch" =>
    \A list \in ServerLists :
       LET M1 == mergeServerTasks(Cur, list)
           M2 == mergeServerTasks(M1, list)
       IN M1.ok =>
            /\ M2.ok
            /\ \A k \in 1..Len(list) : Cardinality(Holding(M1, list[k].id)) = 1
            /\ M2.nextObj = M1.nextObj
            /\ M2.tasks = M1.tasks
            /\ M2.obj = M1.obj
            /\ M2.lsTasks = M1.lsTasks

\* init is about to merge a response that reports a job no Task of the
\* registry holds, next to a Task of the registry: the first merge
\* synthesizes a Task
C26_Witness ==
  /\ initPc = "fetch"
  /\ tasks # <<>>
  /\ \E list \in ServerLists :
        LET M1 == mergeServerTasks(Cur, list)
        IN M1.ok /\ Len(M1.tasks) = Len(tasks) + 1

\* C27: the step in which init ends after its request for the list keeps
\* every Task of the registry in the registry; and whatever response init
\* merges, after the merge the Tasks that were in the registry are still in
\* it, in the same order, and every one of them whose backendId no record of
\* the response carries (a Task without backendId among them) has all its
\* fields as before.
C27_MergeKeepsLocalTasks ==
  [][(initPc = "fetch" /\ initPc' = "done")
        => /\ \A i \in 1..Len(tasks) : IndexOf(tasks', tasks[i]) # 0
           /\ \A list \in ServerLists :
                LET M1 == mergeServerTasks(Cur, list)
                    d == Len(M1.tasks) - Len(tasks)
                IN M1.ok =>
                     /\ d >= 0
                     /\ \A i \in 1..Len(tasks) :
                           /\ M1.tasks[i + d] = tasks[i]
                           /\ ~Reported(Cur, list, tasks[i])
                                 => M1.obj[tasks[i]] = obj[tasks[i]]]_vars

\* init has merged a response next to a Task that has no backendId yet: the
\* registry holds that Task and the Task synthesized from the response
C27_Witness ==
  /\ initPc = "done"
  /\ Len(tasks) = 2
  /\ obj[tasks[1]].backendId # 0
  /\ obj[tasks[2]].backendId = 0
  /\ sub[tasks[2]].pc = "resp"

\* C28: whenever init is about to merge a server response, after the merge
\* every record of the response whose id was the backendId of a Task of the
\* registry has given that Task its normalized status, its progress, its
\* step when it carries one, and its error, and the Task has the download
\* address of its backendId if it is now completed and had none; every
\* record whose id no Task held has added exactly one Task, in front of the
\* Tasks that were in the registry.
C28_ServerIsAuthoritative ==
  initPc = "fetch" =>
    \A list \in ServerLists :
       LET M1 == mergeServerTasks(Cur, list)
           old == {k \in 1..Len(list) : Holding(Cur, list[k].id) # {}}
       IN M1.ok =>
            /\ \A k \in old :
                  LET o == tasks[Min(Holding(Cur, list[k].id))]
                      r == list[k]
                  IN /\ M1.obj[o].status = normalizeStatus(r.status)
                     /\ M1.obj[o].progress = r.progress
                     /\ r.step # "absent" => M1.obj[o].currentStep = r.step
                     /\ M1.obj[o].error = r.error
                     /\ (M1.obj[o].status = "completed" /\ obj[o].downloadUrl = NoUrl)
                           => M1.obj[o].downloadUrl = ApiUrl(obj[o].backendId)
            /\ Len(M1.tasks) = Len(tasks) + Cardinality((1..Len(list)) \ old)
            /\ \A k \in (1..Len(list)) \ old :
                  \E i \in 1..(Len(M1.tasks) - Len(tasks)) :
                     M1.obj[M1.tasks[i]].backendId = list[k].id

-----------------------------------------------------------------------------
(* Resuming streams at startup *)

\* init ends in this step without a credential: none was stored and its
\* guest-session request failed
InitEndsWithoutCredential == initPc = "auth" /\ initPc' = "done" /\ authToken' = 0

\* The tracking call of Task o that init started without a credential gets
\* the answer to its own guest-session request in this step
ResumeAnswered(o) == authToken = 0 /\ trk[o] > 0 /\ trk'[o] < trk[o]

\* The step opens an EventSource for Task o and registers it under the
\* Task's backendId
Resumed(o) ==
  \E s \in Sids :
     /\ es'[s] # es[s]
     /\ es'[s] = [url |-> obj'[o].backendId, task |-> o, open |-> TRUE]
     /\ progressStreams'[obj'[o].backendId] = s

\* The Tasks of the registry that are processing and have a backendId
Resumable == {o \in Registry : obj[o].status = "processing" /\ obj[o].backendId # 0}

\* C29: when init ends without a credential, the registry is the
\* persisted one and no Task field changes (a raw status apart, which is
\* normalized), and a tracking call is started for every Task that is
\* processing and has a backendId; that call ends with the Task's stream
\* open and the Task still processing.
C29_NoCredentialStillResumes ==
  [][/\ InitEndsWithoutCredential
          => /\ tasks' = tasks
             /\ \A o \in Registry' :
                   obj'[o] = [obj[o] EXCEPT !.status = normalizeStatus(@)]
             /\ \A o \in Registry' :
                   trk'[o] = trk[o] + (IF o \in Resumable' THEN 1 ELSE 0)
     /\ \A o \in ObjIds :
           ResumeAnswered(o) => obj'[o].status = "processing" /\ Resumed(o)]_vars

\* The step opens an EventSource for Task o
StartsStreamFor(o) ==
  \E s \in Sids : es'[s].open /\ es'[s].task = o /\ es'[s] # es[s]

-----------------------------------------------------------------------------
(* retryTask *)

\* The submission of Task o that is in flight ends in this step
SubmitEnds(o) == sub[o].pc # "idle" /\ sub'[o].pc = "idle"

\* What the step leaves of the registry and of the identity of Task o
SameTask(o) ==
  /\ tasks' = tasks
  /\ nextObj' = nextObj
  /\ obj'[o].id = obj[o].id
  /\ obj'[o].createdAt = obj[o].createdAt

\* The step in which retryTask starts on Task o: the Task is reset and
\* saved, and the registry is as before
RetryResets(o) ==
  SubmitStarts(o)
     => /\ obj'[o] = [obj[o] EXCEPT !.status = "pending", !.progress = 0,
                                   !.currentStep = "waiting", !.error = "absent"]
        /\ SameTask(o)
        /\ InRegistry(o) => lsTasks'.list[IndexOf(tasks, o)] = obj'[o]

\* C31 as stated: retryTask resets the Task to pending with progress 0 and no
\* error and saves it, then submits the same Task (same id and createdAt,
\* no new registry entry); in the step in which that submission ends the
\* Task's status is processing, completed or error.
C31_RetryEndsProcessingCompletedOrError ==
  [][\A o \in ObjIds :
        /\ RetryResets(o)
        /\ SubmitEnds(o)
             => /\ SameTask(o)
                /\ obj'[o].status \in {"processing", "completed", "error"}]_vars

\* C31, amended: retryTask resets the Task to pending with progress 0 and no
\* error and saves it, then submits the same Task (same id and createdAt,
\* no new registry entry); in the step in which that submission ends the
\* Task's status is error when no credential could be had or the creation
\* request failed, and otherwise the normalized status of the creation
\* response, which is pending when the response says pending, completed or
\* error when it says so, and processing in every other case.
C31_RetryEndsWithOutcome ==
  [][\A o \in ObjIds :
        /\ RetryResets(o)
        /\ SubmitEnds(o)
             => /\ SameTask(o)
                /\ obj'[o].status =
                     CASE sub[o].pc = "auth" -> "error"
                       [] sub[o].raw \in FailKinds -> "error"
                       [] sub[o].raw \in {"failed", "cancelled", "error"} -> "error"
                       [] sub[o].raw \in {"pending", "completed"} -> sub[o].raw
                       [] OTHER -> "processing"]_vars

\* The one Task of the run was submitted again by retryTask and the new
\* creation response said pending: the Task has the second job's id and is
\* pending
C31_Witness ==
  /\ scope = "one"
  /\ obj[1] # NoTask
  /\ obj[1].backendId = 2
  /\ obj[1].status = "pending"
  /\ obj[1].currentStep = "running"
  /\ obj[1].progress = 0
  /\ sub[1].pc = "idle"

-----------------------------------------------------------------------------
(* Pure functions *)

\* C32: for every status string the result of normalizeStatus is one of
\* pending, processing, completed and error; failed and cancelled give
\* error; pending, processing, completed and error give themselves; every
\* other string gives processing; and normalizing the result again returns
\* it unchanged.
C32_NormalizeStatusTotal ==
  (pure.fn = "normalizeStatus" /\ pure.done)
     => /\ pure.res \in {"pending", "processing", "completed", "error"}
        /\ pure.arg \in {"failed", "cancelled"} => pure.res = "error"
        /\ pure.arg \in {"pending", "processing", "completed", "error"}
              => pure.res = pure.arg
        /\ pure.arg \notin {"pending", "processing", "completed", "error",
                            "failed", "cancelled"} => pure.res = "processing"
        /\ normalizeStatus(pure.res) = pure.res

\* normalizeStatus was applied to a string outside the vocabulary
C32_Witness ==
  /\ pure.fn = "normalizeStatus"
  /\ pure.done
  /\ pure.arg = "PENDING"
  /\ pure.res = "processing"

\* The place of a Task's status group in the listing: processing, pending,
\* completed, then error (which the raw statuses failed and cancelled join)
Group(task) ==
  CASE task.status = "processing" -> 1
    [] task.status = "pending" -> 2
    [] task.status = "completed" -> 3
    [] OTHER -> 4

\* C33: for every registry, sortedTasks returns the same Tasks, each once,
\* and leaves the registry in its own order; in the result every processing
\* Task precedes every pending Task, which precedes every completed Task,
\* which precedes every error Task, and within a status group createdAt
\* never increases.
C33_SortedByStatusThenNewest ==
  (pure.fn = "sortedTasks" /\ pure.done)
     => LET a == pure.arg
            r == pure.res
        IN /\ Len(r) = Len(a)
           /\ \A i \in 1..Len(a) : a[i].id = i
           /\ \A i \in 1..Len(a) : \E j \in 1..Len(r) : r[j] = a[i]
           /\ \A i, j \in 1..Len(r) : i # j => r[i].id # r[j].id
           /\ \A i, j \in 1..Len(r) :
                 i < j => /\ Group(r[i]) <= Group(r[j])
                          /\ Group(r[i]) = Group(r[j])
                                => r[i].createdAt >= r[j].createdAt

\* sortedTasks was applied to a registry that lists an error Task first and
\* the older of two processing Tasks before the newer
C33_Witness ==
  /\ pure.fn = "sortedTasks"
  /\ pure.done
  /\ Len(pure.arg) = 3
  /\ pure.arg[1].status = "error"
  /\ pure.arg[2].status = "processing" /\ pure.arg[2].createdAt = 1
  /\ pure.arg[3].status = "processing" /\ pure.arg[3].createdAt = 2
  /\ pure.res = <<pure.arg[3], pure.arg[2], pure.arg[1]>>

\* C34: withTokenQuery returns the URL followed by "?" when the URL holds no
\* "?" and by "&" when it holds one, then "token=" and the encoded
\* credential, which is the credential itself when it has no character that
\* needs encoding: /api/tasks/1/download gives /api/tasks/1/download?token=T
\* and /api/tasks/1/download?x=1 gives /api/tasks/1/download?x=1&token=T.
\* The URL is always a prefix of the result.
C34_TokenAppendedAsQueryParameter ==
  (pure.fn = "withTokenQuery" /\ pure.done)
     => LET url == pure.arg.url
            token == pure.arg.token
            r == pure.res
            n == Len(url)
        IN /\ Len(r) >= n + 3
           /\ SubSeq(r, 1, n) = url
           /\ r[n + 1] = (IF \E i \in 1..n : url[i] = "?" THEN "&" ELSE "?")
           /\ r[n + 2] = "token="
           /\ (\A i \in 1..Len(token) : token[i] \in {"T", "9"})
                 => SubSeq(r, n + 3, Len(r)) = token
           /\ (url = <<"/api/tasks/1/download">> /\ token = <<"T">>)
                 => r = <<"/api/tasks/1/download", "?", "token=", "T">>
           /\ (url = <<"/api/tasks/1/download", "?", "x=1">> /\ token = <<"T">>)
                 => r = <<"/api/tasks/1/download", "?", "x=1", "&", "token=", "T">>

\* withTokenQuery was applied to a URL that has a query string
C34_Witness ==
  /\ pure.fn = "withTokenQuery"
  /\ pure.done
  /\ pure.arg.url = <<"/api/tasks/1/download", "?", "x=1">>
  /\ pure.arg.token = <<"T">>
  /\ pure.res = <<"/api/tasks/1/download", "?", "x=1", "&", "token=", "T">>

-----------------------------------------------------------------------------
(* Identity of a Task *)

\* No step writes the id or the createdAt of a Task object that exists
IdentityKept ==
  \A o \in ObjIds :
     obj[o] # NoTask => /\ obj'[o].id = obj[o].id
                        /\ obj'[o].createdAt = obj[o].createdAt

\* No two entries of the registry carry the same id
IdsDistinct ==
  \A i, j \in 1..Len(tasks) : i # j => obj[tasks[i]].id # obj[tasks[j]].id

-----------------------------------------------------------------------------
(* downloadResult *)

\* A step of a downloadResult call: the call starts, its ensureAuth is
\* answered, or its fetch ends
DownloadStep == dl' # dl

\* C36: downloadResult does nothing when its Task has no downloadUrl (no
\* request, no window, no file, no credential read), and every step of every
\* other call (the credential cannot be obtained, the fetch succeeds, the
\* fetch fails and the URL is opened directly) leaves every Task field, the
\* registry, the persisted snapshot, the subscriptions and the reconnect
\* timers as they were: a failed download is not recorded as a Task error.
C36_DownloadChangesNoTask ==
  [][DownloadStep
       => /\ tasks' = tasks
          /\ obj' = obj
          /\ lsTasks' = lsTasks
          /\ progressStreams' = progressStreams
          /\ es' = es
          /\ timers' = timers
          /\ (dl.pc = "idle" /\ obj[dl'.o].downloadUrl = NoUrl)
                => /\ dl'.pc = "idle"
                   /\ dl'.out = "returned"
                   /\ authToken' = authToken
                   /\ userId' = userId
                   /\ nextTok' = nextTok]_vars

\* The fetch of a completed Task's report failed and the URL was opened
\* directly; the Task is still completed
C36_Witness ==
  /\ dl.pc = "idle"
  /\ dl.out = "openedWithToken"
  /\ InRegistry(dl.o)
  /\ obj[dl.o].status = "completed"

-----------------------------------------------------------------------------
(* deleteTask under interleaving *)

\* The step in which deleteTask(o) receives the answer to its DELETE request
DeleteAnswered(o) == del[o].pc = "delete" /\ del'[o].pc = "idle"

\* C37: when deleteTask(id) ends, no Task other than the one whose id was
\* passed leaves the registry, and on the server's acknowledgment (the job
\* is gone from the server) that Task is no longer in the registry, whatever
\* was inserted or removed while the call was waiting.
C37_DeleteRemovesRequestedTask ==
  [][\A o \in ObjIds :
        DeleteAnswered(o)
           => /\ (Registry \ Registry') \subseteq {o}
              /\ srvJobs' # srvJobs => ~InRegistry(o)']_vars

-----------------------------------------------------------------------------
(* Subscriptions and the registry *)

\* C38: in every reachable state every live subscription is the one
\* registered under its job's id, and that id is the backendId of a Task of
\* the registry: no subscription is live for a Task that was deleted or
\* cleared.
C38_LiveSubscriptionHasRegistryTask ==
  \A s \in Sids :
     es[s].open => /\ progressStreams[es[s].url] = s
                   /\ \E o \in Registry : obj[o].backendId = es[s].url

\* C39: once init has finished, every Task of the registry that has a
\* backendId and status processing, and for which no startProgressTracking
\* call is waiting for a credential, has a live subscription registered
\* under its backendId or a pending reconnect timer.
C39_ProcessingTaskIsTracked ==
  initPc = "done"
     => \A o \in Registry :
           (obj[o].backendId # 0 /\ obj[o].status = "processing" /\ trk[o] = 0)
              => \/ /\ progressStreams[obj[o].backendId] # 0
                    /\ es[progressStreams[obj[o].backendId]].open
                 \/ timers[o] > 0

-----------------------------------------------------------------------------
(* The credential *)

\* A token and a userId that are both empty or come from one guest-session
\* response (a response carries its own number as token and as userId)
PairOfOneResponse(token, uid) == token = uid

\* C40 as stated: in every reachable state the token and the userId in
\* memory, and the stored token and userId, are both empty or both from one
\* guest-session response, and the pair in memory equals the stored pair.
C40_CredentialPairConsistent ==
  /\ PairOfOneResponse(authToken, userId)
  /\ PairOfOneResponse(lsToken, lsUserId)
  /\ authToken = lsToken
  /\ userId = lsUserId

\* C40, amended: in every reachable state the token and the userId in
\* memory, and the stored token and userId, are both empty or both from one
\* guest-session response, and the pair in memory is empty (the stored
\* credential has not been loaded yet) or equals the stored pair, in
\* whatever order the guest-session requests of concurrent ensureAuth calls
\* are answered.
C40_CredentialPairConsistentOnceLoaded ==
  /\ PairOfOneResponse(authToken, userId)
  /\ PairOfOneResponse(lsToken, lsUserId)
  /\ authToken # 0 => (authToken = lsToken /\ userId = lsUserId)

\* Two guest-session requests were issued by concurrent ensureAuth calls and
\* both have been answered; the second answer is the credential held
C40_Witness ==
  /\ nextTok = 3
  /\ authToken = 2
  /\ userId = 2
  /\ lsToken = 2
  /\ lsUserId = 2

=============================================================================
